---- MODULE Spec2Model ----
(***************************************************************************)
(* PostureGuard: the posture session of App (calibration window, per-frame *)
(* evaluation, 2000ms confirmation delay, 5000ms alert cooldown) and the   *)
(* PostureLogic class it drives.                                           *)
(*                                                                         *)
(* Numbers.  Coordinates and thresholds are fixed-point in units of 0.005  *)
(* (the slider step), so the default sensitivity 0.05 is 10.  Visibility   *)
(* is in tenths, so the cutoff 0.5 is 5.  Times are milliseconds, as       *)
(* returned by Date.now().  A quotient (the baseline, a deviation) is kept *)
(* as an exact fraction [num, den] in lowest terms; den = 0 is null.       *)
(***************************************************************************)
EXTENDS Integers, Sequences, FiniteSets

\* ---------------------------------------------------------------- bounds
\* Date.now() when the page is loaded (any value far above the cooldown).
T0 == 10000
\* The clock is observed for this long after T0.
Horizon == 12000
\* At most this many frames are accumulated in one calibration window.
MaxCalFrames == 2

MaxTime == T0 + Horizon

\* ------------------------------------------------------ program constants
AlertCooldownMs == 5000
BadPostureDelayMs == 2000
CalibrationWindowMs == 3000
DefaultSensitivity == 10
VisibilityCutoff == 5

\* Granularity of the clock: every delay of the program is a multiple of it.
TickMs == BadPostureDelayMs \div 2

\* Landmark indices: nose, left ear, right ear, left shoulder, right shoulder.
NOSE == 0
LEFT_EAR == 7
RIGHT_EAR == 8
LEFT_SHOULDER == 11
RIGHT_SHOULDER == 12
LandmarkIdx == {NOSE, LEFT_EAR, RIGHT_EAR, LEFT_SHOULDER, RIGHT_SHOULDER}

\* ------------------------------------------------------------- fractions
RECURSIVE Gcd(_, _)
Gcd(a, b) == IF b = 0 THEN a ELSE Gcd(b, a % b)

Abs(n) == IF n < 0 THEN -n ELSE n

\* n / d as a real number, d > 0.
Quot(n, d) ==
  LET g == Gcd(Abs(n), d)
  IN  [num |-> n \div g, den |-> d \div g]

Null == [num |-> 0, den |-> 0]
Zero == [num |-> 0, den |-> 1]
IsNull(q) == q.den = 0

\* ------------------------------------------------------------- landmarks
\* A frame is a function from the indices MediaPipe reported to the
\* landmark there; landmarks[i] is undefined when i is not in its domain.
Has(landmarks, i) == i \in DOMAIN landmarks

\* ------------------------------------------------------------ PostureLogic
\* A metric with the subtraction the wrong way round (nose.y - shoulderMidY).
calculateMetricFlipped(landmarks) ==
  IF ~Has(landmarks, NOSE) \/ ~Has(landmarks, LEFT_SHOULDER)
       \/ ~Has(landmarks, RIGHT_SHOULDER)
  THEN Null
  ELSE LET shoulderSum == landmarks[LEFT_SHOULDER].y + landmarks[RIGHT_SHOULDER].y
       IN  Quot(2 * landmarks[NOSE].y - shoulderSum, 2)

\* calculateMetric: null, or shoulderMidY - nose.y.
calculateMetric(landmarks) ==
  IF ~Has(landmarks, NOSE) \/ ~Has(landmarks, LEFT_SHOULDER)
       \/ ~Has(landmarks, RIGHT_SHOULDER)
  THEN Null
  ELSE LET shoulderSum == landmarks[LEFT_SHOULDER].y + landmarks[RIGHT_SHOULDER].y
       IN  Quot(shoulderSum - 2 * landmarks[NOSE].y, 2)

\* A wrong cutoff comparison (>= 0.5).
VisibleAtCutoff(landmarks, i) ==
  Has(landmarks, i) /\ landmarks[i].visibility >= VisibilityCutoff

\* landmark && landmark.visibility > 0.5
Visible(landmarks, i) ==
  Has(landmarks, i) /\ landmarks[i].visibility > VisibilityCutoff

\* A presence test that takes an ear for the face and does not look at the
\* nose.
isPersonPresentNoNose(landmarks) ==
  LET leftEarVisible == Visible(landmarks, LEFT_EAR)
      rightEarVisible == Visible(landmarks, RIGHT_EAR)
      leftShoulderVisible == Visible(landmarks, LEFT_SHOULDER)
      rightShoulderVisible == Visible(landmarks, RIGHT_SHOULDER)
      faceVisible == leftEarVisible \/ rightEarVisible
      shouldersVisible == leftShoulderVisible /\ rightShoulderVisible
  IN  faceVisible /\ shouldersVisible

isPersonPresent(landmarks) ==
  LET noseVisible == Visible(landmarks, NOSE)
      leftEarVisible == Visible(landmarks, LEFT_EAR)
      rightEarVisible == Visible(landmarks, RIGHT_EAR)
      leftShoulderVisible == Visible(landmarks, LEFT_SHOULDER)
      rightShoulderVisible == Visible(landmarks, RIGHT_SHOULDER)
      faceVisible == noseVisible /\ (leftEarVisible \/ rightEarVisible)
      shouldersVisible == leftShoulderVisible /\ rightShoulderVisible
  IN  faceVisible /\ shouldersVisible

\* A checkPosture that calls a deviation equal to the threshold bad.
checkPostureAtLeast(logicCalibrated, base, thr, landmarks) ==
  LET currentMetric == calculateMetric(landmarks)
  IN  IF ~logicCalibrated THEN [isBad |-> FALSE, deviation |-> Zero]
      ELSE IF IsNull(currentMetric) THEN [isBad |-> FALSE, deviation |-> Zero]
      ELSE LET deviation ==
                 Quot(base.num * currentMetric.den - currentMetric.num * base.den,
                      base.den * currentMetric.den)
           IN  [isBad |-> deviation.num >= thr * deviation.den,
                deviation |-> deviation]

\* checkPosture: { isBad, deviation } from the logic's fields.
checkPosture(logicCalibrated, base, thr, landmarks) ==
  LET currentMetric == calculateMetric(landmarks)
  IN  IF ~logicCalibrated THEN [isBad |-> FALSE, deviation |-> Zero]
      ELSE IF IsNull(currentMetric) THEN [isBad |-> FALSE, deviation |-> Zero]
      ELSE LET deviation ==
                 Quot(base.num * currentMetric.den - currentMetric.num * base.den,
                      base.den * currentMetric.den)
           IN  [isBad |-> deviation.num > thr * deviation.den,
                deviation |-> deviation]

AddQ(a, b) == Quot(a.num * b.den + b.num * a.den, a.den * b.den)

\* calibrate: accumulates the frame's metric when there is one.
calibrate(sum, count, landmarks) ==
  LET metric == calculateMetric(landmarks)
  IN  IF ~IsNull(metric)
      THEN [calibrationSum |-> AddQ(sum, metric), calibrationCount |-> count + 1]
      ELSE [calibrationSum |-> sum, calibrationCount |-> count]

\* A reset that keeps the accumulator of the previous window.
resetCalibrationKeepSum(sum, count) ==
  [calibrationCount |-> count, calibrationSum |-> sum,
   isCalibrated |-> FALSE, baseline |-> Null]

\* A reset that forgets to clear isCalibrated (the count is positive
\* exactly when the previous window produced a baseline).
resetCalibrationKeepFlag(sum, count) ==
  [calibrationCount |-> 0, calibrationSum |-> Zero,
   isCalibrated |-> count > 0, baseline |-> Null]

\* resetCalibration: the four fields it assigns.
resetCalibration(sum, count) ==
  [calibrationCount |-> 0, calibrationSum |-> Zero,
   isCalibrated |-> FALSE, baseline |-> Null]

\* finalizeCalibration: the return value and the two fields it may assign.
finalizeCalibration(sum, count, base, logicCalibrated) ==
  IF count > 0
  THEN [success |-> TRUE, baseline |-> Quot(sum.num, sum.den * count),
        isCalibrated |-> TRUE]
  ELSE [success |-> FALSE, baseline |-> base, isCalibrated |-> logicCalibrated]

\* -------------------------------------------------------------------- App
\* A cooldown test that lets an alert through at exactly 5000ms.
CooldownOverAtLimit(nowMs, last) == nowMs - last >= AlertCooldownMs

\* now - lastAlertTime.current > 5000
CooldownOver(nowMs, last) == nowMs - last > AlertCooldownMs

\* A speakAlert that speaks once and stays silent ever after.
speakAlertOnce(nowMs, last) ==
  IF last = 0 /\ CooldownOver(nowMs, last)
  THEN [fired |-> TRUE, lastAlertTime |-> nowMs]
  ELSE [fired |-> FALSE, lastAlertTime |-> last]

\* speakAlert: whether the utterance is spoken, and lastAlertTime.current.
speakAlert(nowMs, last) ==
  IF CooldownOver(nowMs, last)
  THEN [fired |-> TRUE, lastAlertTime |-> nowMs]
  ELSE [fired |-> FALSE, lastAlertTime |-> last]

\* A confirmation test that triggers at exactly 2000ms.
BadConfirmedAtLimit(nowMs, start) == nowMs - start >= BadPostureDelayMs

\* Date.now() - badPostureStartTime.current > 2000
BadConfirmed(nowMs, start) == nowMs - start > BadPostureDelayMs

\* A no-person branch that forgets to reset the bad-posture timer.
NoPersonKeepTimer(status, dev, start) ==
  [postureStatus |-> "waiting", deviation |-> Zero, badPostureStartTime |-> start]

\* A no-person branch that forgets setPostureStatus('waiting').
NoPersonKeepStatus(status, dev, start) ==
  [postureStatus |-> status, deviation |-> Zero, badPostureStartTime |-> 0]

\* handlePoseDetected, no person in a calibrated session.
NoPerson(status, dev, start) ==
  [postureStatus |-> "waiting", deviation |-> Zero, badPostureStartTime |-> 0]

\* A good-posture branch that forgets to reset the bad-posture timer.
GoodPostureKeepTimer(status, start) ==
  [postureStatus |-> "good", badPostureStartTime |-> start]

\* handlePoseDetected, result.isBad false.
GoodPosture(status, start) ==
  [postureStatus |-> "good", badPostureStartTime |-> 0]

\* A bad-posture branch that speaks as soon as the timer is started.
BadPostureAlertsEarly(status, start, last, nowMs) ==
  IF start = 0
  THEN LET a == speakAlert(nowMs, last)
       IN  [postureStatus |-> status, badPostureStartTime |-> nowMs,
            lastAlertTime |-> a.lastAlertTime, fired |-> a.fired]
  ELSE IF BadConfirmed(nowMs, start)
  THEN LET a == speakAlert(nowMs, last)
       IN  [postureStatus |-> "bad", badPostureStartTime |-> start,
            lastAlertTime |-> a.lastAlertTime, fired |-> a.fired]
  ELSE [postureStatus |-> status, badPostureStartTime |-> start,
        lastAlertTime |-> last, fired |-> FALSE]

\* A bad-posture branch that speaks only when the status was not yet bad.
BadPostureAlertOnTransition(status, start, last, nowMs) ==
  IF start = 0
  THEN [postureStatus |-> status, badPostureStartTime |-> nowMs,
        lastAlertTime |-> last, fired |-> FALSE]
  ELSE IF BadConfirmed(nowMs, start)
  THEN LET a == IF status # "bad" THEN speakAlert(nowMs, last)
                ELSE [fired |-> FALSE, lastAlertTime |-> last]
       IN  [postureStatus |-> "bad", badPostureStartTime |-> start,
            lastAlertTime |-> a.lastAlertTime, fired |-> a.fired]
  ELSE [postureStatus |-> status, badPostureStartTime |-> start,
        lastAlertTime |-> last, fired |-> FALSE]

\* handlePoseDetected, result.isBad true.
BadPosture(status, start, last, nowMs) ==
  IF start = 0
  THEN [postureStatus |-> status, badPostureStartTime |-> nowMs,
        lastAlertTime |-> last, fired |-> FALSE]
  ELSE IF BadConfirmed(nowMs, start)
  THEN LET a == speakAlert(nowMs, last)
       IN  [postureStatus |-> "bad", badPostureStartTime |-> start,
            lastAlertTime |-> a.lastAlertTime, fired |-> a.fired]
  ELSE [postureStatus |-> status, badPostureStartTime |-> start,
        lastAlertTime |-> last, fired |-> FALSE]

\* ------------------------------------------------------------------ state
VARIABLES
  isCalibrated, postureStatus, deviation, calibrating, sensitivity,
  lastAlertTime, badPostureStartTime,
  baseline, calibrationCount, calibrationSum, logicIsCalibrated, threshold,
  now, timers,
  ev, alerts, runStart, brokenStreak,
  winSum, winCount, winSawAbsent, baselineAtStart,
  pLandmarks, pPc, pResult, pBefore, pMetric, pMetricBefore

appVars == <<isCalibrated, postureStatus, deviation, calibrating, sensitivity,
             lastAlertTime, badPostureStartTime>>
logicVars == <<baseline, calibrationCount, calibrationSum, logicIsCalibrated,
               threshold>>
envVars == <<now, timers>>
histVars == <<ev, alerts, runStart, brokenStreak,
              winSum, winCount, winSawAbsent, baselineAtStart>>
\* The harness of the pure functions: an input frame, the position in the
\* harness, the function's result and its result before the last change of
\* the input (pResult, pBefore for isPersonPresent; pMetric, pMetricBefore
\* for calculateMetric).
pureVars == <<pLandmarks, pPc, pResult, pBefore, pMetric, pMetricBefore>>
vars == <<appVars, logicVars, envVars, histVars, pureVars>>

\* ----------------------------------------------------------------- inputs
\* The slider positions tried (0.05 and 0.06).
Sensitivities == {DefaultSensitivity, DefaultSensitivity + 2}

\* Nose heights of the frames: metrics 60 and 48 against shoulders at 98
\* and 102.
NoseYs == {40, 52}
FullFrame(noseY) ==
  [i \in LandmarkIdx |->
     [x |-> 100,
      y |-> IF i = NOSE THEN noseY
            ELSE IF i = LEFT_SHOULDER THEN 98
            ELSE IF i = RIGHT_SHOULDER THEN 102
            ELSE 45,
      visibility |-> 9]]

Drop(f, S) == [i \in (DOMAIN f) \ S |-> f[i]]
Dim(f, S) == [i \in DOMAIN f |->
                IF i \in S THEN [f[i] EXCEPT !.visibility = VisibilityCutoff]
                ELSE f[i]]

\* Frames delivered by the pose source: a fully visible person at each nose
\* height; the same with one ear missing (still present), with the nose or
\* a shoulder missing (no metric), with a shoulder or both ears at the
\* visibility cutoff (a metric, but no person); and an empty detection.
Frames ==
  {FullFrame(y) : y \in NoseYs}
    \cup {Drop(FullFrame(52), {LEFT_EAR}), Drop(FullFrame(52), {NOSE}),
          Drop(FullFrame(40), {LEFT_SHOULDER}),
          Dim(FullFrame(40), {RIGHT_SHOULDER}),
          Dim(FullFrame(52), {LEFT_EAR, RIGHT_EAR}),
          Drop(FullFrame(52), LandmarkIdx)}

\* ---------------------------------------------------------------- history
\* ev describes the step that led to the current state when it was a frame
\* or a calibration step (op is "other" after a clock tick or a slider
\* move): for a frame whether a person was present, whether checkPosture
\* called it bad and whether the alert was spoken; for an evaluated frame
\* the status displayed before it and the frame's metric; for the finalize
\* callback its result, the baseline held before its window was started and whether the window
\* saw a frame with a metric but no person.
NoEv == [op |-> "other", present |-> FALSE, isBad |-> FALSE, fired |-> FALSE,
         success |-> FALSE, prevStatus |-> "waiting",
         prevBaseline |-> Null, sawAbsent |-> FALSE, metric |-> Null]
Ev(op) == [NoEv EXCEPT !.op = op]

Min(S) == CHOOSE m \in S : \A n \in S : m <= n

\* ------------------------------------------------------------------- Init
\* The state after App is first rendered: the useState and useRef initial
\* values and a freshly constructed PostureLogic.
SessionInit ==
  /\ isCalibrated = FALSE
  /\ postureStatus = "waiting"
  /\ deviation = Zero
  /\ calibrating = FALSE
  /\ sensitivity = DefaultSensitivity
  /\ lastAlertTime = 0
  /\ badPostureStartTime = 0
  /\ baseline = Null
  /\ calibrationCount = 0
  /\ calibrationSum = Zero
  /\ logicIsCalibrated = FALSE
  /\ threshold = DefaultSensitivity
  /\ now = T0
  /\ timers = {}
  /\ ev = NoEv
  /\ alerts = <<>>
  /\ runStart = 0
  /\ brokenStreak = FALSE
  /\ winSum = Zero
  /\ winCount = 0
  /\ winSawAbsent = FALSE
  /\ baselineAtStart = Null

Init ==
  /\ SessionInit
  /\ pLandmarks = <<>>
  /\ pPc = "off"
  /\ pResult = FALSE
  /\ pBefore = FALSE
  /\ pMetric = Null
  /\ pMetricBefore = Null

\* ---------------------------------------------------------------- actions
\* The clock advances, but not past a pending setTimeout deadline: a due
\* timer callback runs before any later time is observed.
Tick ==
  /\ now < MaxTime
  /\ \A d \in timers : d > now
  /\ now' = Min({now + TickMs, MaxTime} \cup timers)
  /\ ev' = NoEv
  /\ UNCHANGED <<appVars, logicVars, timers, alerts, runStart, brokenStreak,
                 winSum, winCount, winSawAbsent, baselineAtStart, pureVars>>

\* The sensitivity slider's onChange.
SetSensitivity(v) ==
  /\ v # sensitivity
  /\ sensitivity' = v
  /\ ev' = NoEv
  /\ UNCHANGED <<isCalibrated, postureStatus, deviation, calibrating,
                 lastAlertTime, badPostureStartTime, logicVars, envVars,
                 alerts, runStart, brokenStreak, winSum, winCount,
                 winSawAbsent, baselineAtStart, pureVars>>

\* A calibration button that stays enabled while calibrating.
StartCalibrationAnytime ==
  /\ now + CalibrationWindowMs <= MaxTime
  /\ LET r == resetCalibration(calibrationSum, calibrationCount)
     IN  /\ calibrating' = TRUE
         /\ calibrationCount' = r.calibrationCount
         /\ calibrationSum' = r.calibrationSum
         /\ logicIsCalibrated' = r.isCalibrated
         /\ baseline' = r.baseline
  /\ timers' = timers \cup {now + CalibrationWindowMs}
  /\ ev' = Ev("start")
  /\ winSum' = Zero
  /\ winCount' = 0
  /\ winSawAbsent' = FALSE
  /\ baselineAtStart' = baseline
  /\ UNCHANGED <<isCalibrated, postureStatus, deviation, sensitivity,
                 lastAlertTime, badPostureStartTime, threshold, now, alerts,
                 runStart, brokenStreak, pureVars>>

\* A click on "Start Calibration" / "Recalibrate": the button is disabled
\* while calibrating.
StartCalibration ==
  /\ ~calibrating
  /\ now + CalibrationWindowMs <= MaxTime
  /\ LET r == resetCalibration(calibrationSum, calibrationCount)
     IN  /\ calibrating' = TRUE
         /\ calibrationCount' = r.calibrationCount
         /\ calibrationSum' = r.calibrationSum
         /\ logicIsCalibrated' = r.isCalibrated
         /\ baseline' = r.baseline
  /\ timers' = timers \cup {now + CalibrationWindowMs}
  /\ ev' = Ev("start")
  /\ winSum' = Zero
  /\ winCount' = 0
  /\ winSawAbsent' = FALSE
  /\ baselineAtStart' = baseline
  /\ UNCHANGED <<isCalibrated, postureStatus, deviation, sensitivity,
                 lastAlertTime, badPostureStartTime, threshold, now, alerts,
                 runStart, brokenStreak, pureVars>>

\* A setTimeout callback that clears the calibrating flag only when the
\* calibration succeeded.
FinalizeTimerStuck ==
  \E d \in timers :
    /\ now >= d
    /\ timers' = timers \ {d}
    /\ LET r == finalizeCalibration(calibrationSum, calibrationCount, baseline,
                                    logicIsCalibrated)
       IN  /\ baseline' = r.baseline
           /\ logicIsCalibrated' = r.isCalibrated
           /\ calibrating' = ~r.success
           /\ isCalibrated' = IF r.success THEN TRUE ELSE isCalibrated
           /\ postureStatus' = IF r.success THEN "good" ELSE postureStatus
           /\ ev' = [Ev("finalize") EXCEPT !.success = r.success,
                                          !.prevBaseline = baselineAtStart,
                                          !.sawAbsent = winSawAbsent]
    /\ winSawAbsent' = FALSE
    /\ baselineAtStart' = Null
    /\ UNCHANGED <<deviation, sensitivity, lastAlertTime, badPostureStartTime,
                   calibrationCount, calibrationSum, threshold, now, alerts,
                   runStart, brokenStreak, winSum, winCount, pureVars>>

\* The setTimeout callback of startCalibration.
FinalizeTimer ==
  \E d \in timers :
    /\ now >= d
    /\ timers' = timers \ {d}
    /\ LET r == finalizeCalibration(calibrationSum, calibrationCount, baseline,
                                    logicIsCalibrated)
       IN  /\ baseline' = r.baseline
           /\ logicIsCalibrated' = r.isCalibrated
           /\ calibrating' = FALSE
           /\ isCalibrated' = IF r.success THEN TRUE ELSE isCalibrated
           /\ postureStatus' = IF r.success THEN "good" ELSE postureStatus
           /\ ev' = [Ev("finalize") EXCEPT !.success = r.success,
                                          !.prevBaseline = baselineAtStart,
                                          !.sawAbsent = winSawAbsent]
    /\ winSawAbsent' = FALSE
    /\ baselineAtStart' = Null
    /\ UNCHANGED <<deviation, sensitivity, lastAlertTime, badPostureStartTime,
                   calibrationCount, calibrationSum, threshold, now, alerts,
                   runStart, brokenStreak, winSum, winCount, pureVars>>

\* A calibrating branch that accumulates a frame without asking whether a
\* person is present.
FrameCalibratingNoPresence(landmarks) ==
  LET personPresent == isPersonPresent(landmarks)
      hasMetric == ~IsNull(calculateMetric(landmarks))
      c == calibrate(calibrationSum, calibrationCount, landmarks)
  IN  /\ c.calibrationCount <= MaxCalFrames
      /\ calibrationSum' = c.calibrationSum
      /\ calibrationCount' = c.calibrationCount
      /\ ev' = [Ev("calibrate") EXCEPT !.present = personPresent]
      /\ winSum' = IF personPresent /\ hasMetric
                   THEN AddQ(winSum, calculateMetric(landmarks)) ELSE winSum
      /\ winCount' = IF personPresent /\ hasMetric
                     THEN winCount + 1 ELSE winCount
      /\ winSawAbsent' = (winSawAbsent \/ (~personPresent /\ hasMetric))
      /\ UNCHANGED <<appVars, baseline, logicIsCalibrated, threshold, envVars,
                     alerts, runStart, brokenStreak, baselineAtStart,
                     pureVars>>

\* handlePoseDetected while calibrating.
FrameCalibrating(landmarks) ==
  LET personPresent == isPersonPresent(landmarks)
      hasMetric == ~IsNull(calculateMetric(landmarks))
      c == IF personPresent
           THEN calibrate(calibrationSum, calibrationCount, landmarks)
           ELSE [calibrationSum |-> calibrationSum,
                 calibrationCount |-> calibrationCount]
  IN  /\ c.calibrationCount <= MaxCalFrames
      /\ calibrationSum' = c.calibrationSum
      /\ calibrationCount' = c.calibrationCount
      /\ ev' = [Ev("calibrate") EXCEPT !.present = personPresent]
      /\ winSum' = IF personPresent /\ hasMetric
                   THEN AddQ(winSum, calculateMetric(landmarks)) ELSE winSum
      /\ winCount' = IF personPresent /\ hasMetric
                     THEN winCount + 1 ELSE winCount
      /\ winSawAbsent' = (winSawAbsent \/ (~personPresent /\ hasMetric))
      /\ UNCHANGED <<appVars, baseline, logicIsCalibrated, threshold, envVars,
                     alerts, runStart, brokenStreak, baselineAtStart,
                     pureVars>>

\* handlePoseDetected in a calibrated session, not calibrating.
FrameEvaluate(landmarks) ==
  LET personPresent == isPersonPresent(landmarks)
  IN  IF ~personPresent
      THEN LET r == NoPerson(postureStatus, deviation, badPostureStartTime)
           IN  /\ postureStatus' = r.postureStatus
               /\ deviation' = r.deviation
               /\ badPostureStartTime' = r.badPostureStartTime
               /\ ev' = [Ev("evaluate") EXCEPT
                           !.prevStatus = postureStatus,
                           !.metric = calculateMetric(landmarks)]
               /\ brokenStreak' = (brokenStreak \/ runStart # 0)
               /\ runStart' = 0
               /\ UNCHANGED <<lastAlertTime, threshold, alerts>>
      ELSE LET result == checkPosture(logicIsCalibrated, baseline, sensitivity,
                                      landmarks)
               b == BadPosture(postureStatus, badPostureStartTime,
                               lastAlertTime, now)
               g == GoodPosture(postureStatus, badPostureStartTime)
           IN  /\ threshold' = sensitivity
               /\ deviation' = result.deviation
               /\ postureStatus' =
                    IF result.isBad THEN b.postureStatus ELSE g.postureStatus
               /\ badPostureStartTime' =
                    IF result.isBad THEN b.badPostureStartTime
                    ELSE g.badPostureStartTime
               /\ lastAlertTime' =
                    IF result.isBad THEN b.lastAlertTime ELSE lastAlertTime
               /\ ev' = [Ev("evaluate") EXCEPT
                           !.prevStatus = postureStatus,
                           !.metric = calculateMetric(landmarks),
                           !.present = TRUE, !.isBad = result.isBad,
                           !.fired = result.isBad /\ b.fired]
               /\ alerts' = IF result.isBad /\ b.fired
                            THEN Append(alerts, now) ELSE alerts
               /\ brokenStreak' =
                    (brokenStreak \/ (~result.isBad /\ runStart # 0))
               /\ runStart' = IF ~result.isBad THEN 0
                              ELSE IF runStart = 0 THEN now ELSE runStart

\* The pose source delivers a frame with landmarks: onResults calls the
\* latest handlePoseDetected.
HandlePoseDetected(landmarks) ==
  IF calibrating
  THEN FrameCalibrating(landmarks)
  ELSE IF isCalibrated
  THEN /\ FrameEvaluate(landmarks)
       /\ UNCHANGED <<isCalibrated, calibrating, sensitivity, baseline,
                      calibrationCount, calibrationSum, logicIsCalibrated,
                      envVars, winSum, winCount, winSawAbsent, baselineAtStart,
                      pureVars>>
  ELSE /\ ev' = [Ev("idle") EXCEPT !.present = isPersonPresent(landmarks)]
       /\ UNCHANGED <<appVars, logicVars, envVars, alerts, runStart,
                      brokenStreak, winSum, winCount, winSawAbsent,
                      baselineAtStart, pureVars>>

Next ==
  \/ Tick
  \/ \E v \in Sensitivities : SetSensitivity(v)
  \/ StartCalibration
  \/ FinalizeTimer
  \/ \E landmarks \in Frames : HandlePoseDetected(landmarks)

Spec == Init /\ [][Next]_vars

\* The session in a running browser: the clock keeps advancing and the event
\* loop runs a setTimeout callback that is due.
LiveSpec == Spec /\ WF_vars(Tick) /\ WF_vars(FinalizeTimer)

\* ------------------------------------------------- the pure functions alone
\* Input frames of the harness: each of the five landmarks is missing, or is
\* at the origin with visibility 0, at the cutoff or just above it.
PVisibilities == {0, VisibilityCutoff, VisibilityCutoff + 1}
PPositions == {0, 1}
PFrames ==
  UNION {[S -> [x : {0}, y : {0}, visibility : PVisibilities]] :
           S \in SUBSET LandmarkIdx}

PInit ==
  /\ SessionInit
  /\ pLandmarks \in PFrames
  /\ pPc = "input"
  /\ pResult = FALSE
  /\ pBefore = FALSE
  /\ pMetric = Null
  /\ pMetricBefore = Null

\* isPersonPresent is applied to the input frame.
PCheck ==
  /\ pPc = "input"
  /\ pResult' = isPersonPresent(pLandmarks)
  /\ pPc' = "checked"
  /\ UNCHANGED <<pLandmarks, pBefore, pMetric, pMetricBefore, appVars,
                 logicVars, envVars, histVars>>

\* One landmark of a checked frame is moved, its visibility kept, and
\* isPersonPresent is applied again.
PMove(i, x, y) ==
  /\ pPc = "checked"
  /\ i \in DOMAIN pLandmarks
  /\ <<x, y>> # <<pLandmarks[i].x, pLandmarks[i].y>>
  /\ pLandmarks' = [pLandmarks EXCEPT ![i].x = x, ![i].y = y]
  /\ pBefore' = pResult
  /\ pResult' = isPersonPresent(pLandmarks')
  /\ pPc' = "moved"
  /\ UNCHANGED <<pMetric, pMetricBefore, appVars, logicVars, envVars,
                 histVars>>

PNext ==
  \/ PCheck
  \/ \E i \in LandmarkIdx, x \in PPositions, y \in PPositions : PMove(i, x, y)

PresenceSpec == PInit /\ [][PNext]_vars

\* Input frames of the calculateMetric harness: the nose and the shoulders
\* are missing or at one of three heights, hidden or visible; each ear is
\* missing or visible.
MHeights == {10, 13, 20}
MFrames ==
  UNION {[S -> [x : {0}, y : MHeights, visibility : {0, 9}]] :
           S \in SUBSET {NOSE, LEFT_SHOULDER, RIGHT_SHOULDER}}
EarFrames ==
  UNION {[S -> [x : {0}, y : {15}, visibility : {9}]] :
           S \in SUBSET {LEFT_EAR, RIGHT_EAR}}
Merge(f, g) ==
  [i \in DOMAIN f \cup DOMAIN g |-> IF i \in DOMAIN f THEN f[i] ELSE g[i]]

MInit ==
  /\ SessionInit
  /\ pLandmarks \in {Merge(f, g) : f \in MFrames, g \in EarFrames}
  /\ pPc = "input"
  /\ pResult = FALSE
  /\ pBefore = FALSE
  /\ pMetric = Null
  /\ pMetricBefore = Null

\* calculateMetric is applied to the input frame.
MCheck ==
  /\ pPc = "input"
  /\ pMetric' = calculateMetric(pLandmarks)
  /\ pPc' = "checked"
  /\ UNCHANGED <<pLandmarks, pResult, pBefore, pMetricBefore, appVars,
                 logicVars, envVars, histVars>>

\* The visibility of one landmark of a checked frame is changed and
\* calculateMetric is applied again.
MSetVisibility(i, v) ==
  /\ pPc = "checked"
  /\ i \in DOMAIN pLandmarks
  /\ v # pLandmarks[i].visibility
  /\ pLandmarks' = [pLandmarks EXCEPT ![i].visibility = v]
  /\ pMetricBefore' = pMetric
  /\ pMetric' = calculateMetric(pLandmarks')
  /\ pPc' = "moved"
  /\ UNCHANGED <<pResult, pBefore, appVars, logicVars, envVars, histVars>>

\* An ear of a checked frame is removed or moved and calculateMetric is
\* applied again.
MChangeEar(i, drop) ==
  /\ pPc = "checked"
  /\ i \in DOMAIN pLandmarks \cap {LEFT_EAR, RIGHT_EAR}
  /\ pLandmarks' = IF drop THEN Drop(pLandmarks, {i})
                   ELSE [pLandmarks EXCEPT ![i].y = 99, ![i].x = 99]
  /\ pMetricBefore' = pMetric
  /\ pMetric' = calculateMetric(pLandmarks')
  /\ pPc' = "moved"
  /\ UNCHANGED <<pResult, pBefore, appVars, logicVars, envVars, histVars>>

MNext ==
  \/ MCheck
  \/ \E i \in LandmarkIdx, v \in PVisibilities : MSetVisibility(i, v)
  \/ \E i \in LandmarkIdx, drop \in BOOLEAN : MChangeEar(i, drop)

MetricSpec == MInit /\ [][MNext]_vars

\* ------------------------------------------------------------ properties
EvaluatedBad == ev.op = "evaluate" /\ ev.present /\ ev.isBad

\* C1. Debounce safety: an evaluation leaves the status "bad" only if it was
\* of a person-present frame with deviation > threshold, the bad-posture
\* timer was started more than 2000ms before it, and every evaluation since
\* the timer was started was of such a frame (the run of bad evaluations
\* began no later than the timer); so a streak shorter than 2000ms never
\* produces "bad".
C1_DebounceSafety ==
  (ev.op = "evaluate" /\ postureStatus = "bad") =>
    /\ ev.present /\ ev.isBad
    /\ badPostureStartTime # 0
    /\ now - badPostureStartTime > BadPostureDelayMs
    /\ runStart # 0
    /\ runStart <= badPostureStartTime

\* An evaluation turns "good" into "bad" 3000ms after the streak began.
C1_Witness ==
  /\ EvaluatedBad
  /\ postureStatus = "bad"
  /\ ev.prevStatus = "good"
  /\ now - badPostureStartTime = 3000

\* C2 as stated: after an evaluation of a person-present bad frame the
\* status is "bad" exactly when the timer was started at least 2000ms before
\* it (an evaluation exactly 2000ms after the first bad frame yields "bad").
C2_FlipsAtOrAfter2000 ==
  EvaluatedBad =>
    (postureStatus = "bad" <=> now - badPostureStartTime >= BadPostureDelayMs)

\* C2, amended: after an evaluation of a person-present bad frame the status
\* is "bad" exactly when the timer was started strictly more than 2000ms
\* before it; otherwise the evaluation leaves the status as it was.
C2_FlipsAfter2000 ==
  EvaluatedBad =>
    /\ postureStatus = "bad" <=> now - badPostureStartTime > BadPostureDelayMs
    /\ postureStatus # "bad" => postureStatus = ev.prevStatus

\* A bad frame evaluated exactly 2000ms after the first bad frame of the
\* streak: the status is still "good".
C2_Witness ==
  /\ EvaluatedBad
  /\ now - badPostureStartTime = BadPostureDelayMs
  /\ postureStatus = "good"

\* C3. Alert cooldown: any two alert firings are more than 5000ms apart, and
\* the last-alert timestamp is the time of the most recent firing.
C3_AlertCooldown ==
  /\ \A i, j \in DOMAIN alerts : i < j => alerts[j] - alerts[i] > AlertCooldownMs
  /\ alerts # <<>> => lastAlertTime = alerts[Len(alerts)]

\* A second alert has just been spoken.
C3_Witness == ev.fired /\ Len(alerts) = 2

\* C4. Presence loss forces waiting: in a calibrated session that is not
\* calibrating, the evaluation of a frame without a person yields status
\* "waiting" and deviation 0 and speaks no alert, whatever the status was.
C4_PresenceLossWaits ==
  (ev.op = "evaluate" /\ ~ev.present) =>
    /\ postureStatus = "waiting"
    /\ deviation = Zero
    /\ ~ev.fired
    /\ (alerts # <<>> => lastAlertTime = alerts[Len(alerts)])

\* A frame without a person is evaluated while the status is "bad".
C4_Witness ==
  /\ ev.op = "evaluate"
  /\ ~ev.present
  /\ ev.prevStatus = "bad"
  /\ postureStatus = "waiting"

\* C5. Interruption restarts the countdown: an evaluation of a frame without
\* a person, or of a frame that is not bad, leaves the bad-posture timer
\* cleared, and the status is "bad" only when more than 2000ms have passed
\* since the first bad frame after the last such interruption.
C5_InterruptionRestarts ==
  /\ (ev.op = "evaluate" /\ ~(ev.present /\ ev.isBad)) => badPostureStartTime = 0
  /\ postureStatus = "bad" => (runStart # 0 /\ now - runStart > BadPostureDelayMs)

\* "bad" is reached again after a running streak had been interrupted.
C5_Witness ==
  /\ EvaluatedBad
  /\ brokenStreak
  /\ postureStatus = "bad"
  /\ ev.prevStatus # "bad"

\* C6. Whenever the displayed status is "waiting" the displayed deviation
\* is 0.
C6_WaitingMeansZero == postureStatus = "waiting" => deviation = Zero

\* C7. Uncalibrated sessions only wait: when the session has no baseline,
\* a frame handled outside a calibration window leaves status "waiting" and
\* deviation 0 and speaks no alert.
C7_NoBaselineOnlyWaits ==
  (ev.op \in {"idle", "evaluate"} /\ IsNull(baseline)) =>
    /\ postureStatus = "waiting"
    /\ deviation = Zero
    /\ ~ev.fired

\* C8. Calibration correctness: when the finalize callback runs after a
\* window in which k >= 1 person-present frames produced a metric, it
\* succeeds and the baseline is the mean of those k metrics; throughout a
\* window the accumulator holds exactly the metrics of the person-present
\* frames received since startCalibration.
C8_CalibrationMean ==
  /\ (ev.op = "finalize" /\ winCount >= 1) =>
       /\ ev.success
       /\ logicIsCalibrated
       /\ ~IsNull(baseline)
       /\ baseline.num * winCount * winSum.den = winSum.num * baseline.den
  /\ calibrating => (calibrationSum = winSum /\ calibrationCount = winCount)

\* A recalibration succeeds on two metrics, in a window that also received a
\* frame with a metric but no person.
C8_Witness ==
  /\ ev.op = "finalize"
  /\ ev.success
  /\ winCount = 2
  /\ ev.sawAbsent
  /\ ~IsNull(ev.prevBaseline)

\* C9. Failed calibration restores the previous state: when a window
\* collected no valid frame, the finalize callback fails and the session is
\* as before startCalibration: uncalibrated if it had no baseline,
\* calibrated with the same baseline otherwise.
C9_FailedCalibrationRestores ==
  (ev.op = "finalize" /\ winCount = 0) =>
    /\ ~ev.success
    /\ ~calibrating
    /\ baseline = ev.prevBaseline
    /\ logicIsCalibrated <=> ~IsNull(ev.prevBaseline)
    /\ isCalibrated <=> ~IsNull(ev.prevBaseline)

\* C10. isPersonPresent is true exactly when the nose is visible, an ear is
\* visible and both shoulders are visible, a landmark being visible iff it
\* is in the mapping with visibility strictly above 0.5; moving a landmark
\* does not change the result, and a required landmark at exactly 0.5 makes
\* it false.
C10_PresenceRule ==
  LET seen(i) == i \in DOMAIN pLandmarks
                   /\ ~(pLandmarks[i].visibility <= VisibilityCutoff)
      atCutoff(i) == i \in DOMAIN pLandmarks
                       /\ pLandmarks[i].visibility = VisibilityCutoff
  IN  pPc \in {"checked", "moved"} =>
        /\ pResult <=> (/\ seen(NOSE)
                        /\ seen(LEFT_EAR) \/ seen(RIGHT_EAR)
                        /\ seen(LEFT_SHOULDER)
                        /\ seen(RIGHT_SHOULDER))
        /\ pPc = "moved" => pResult = pBefore
        /\ (atCutoff(NOSE) \/ atCutoff(LEFT_SHOULDER) \/ atCutoff(RIGHT_SHOULDER))
             => ~pResult
        /\ (atCutoff(LEFT_EAR) /\ ~seen(RIGHT_EAR)) => ~pResult

\* A person is found with the left ear at exactly 0.5 and the right ear
\* visible, before and after the nose is moved.
C10_Witness ==
  /\ pPc = "moved"
  /\ pResult
  /\ DOMAIN pLandmarks = LandmarkIdx
  /\ pLandmarks[LEFT_EAR].visibility = VisibilityCutoff
  /\ pLandmarks[NOSE].y = 1

\* C11. calculateMetric returns null exactly when the nose or a shoulder is
\* missing from the mapping; otherwise it returns
\* (leftShoulder.y + rightShoulder.y) / 2 - nose.y, whatever the
\* visibilities and the ears are; applying it leaves the session as it was
\* constructed.
C11_MetricRule ==
  pPc \in {"checked", "moved"} =>
    /\ IsNull(pMetric) <=>
         ({NOSE, LEFT_SHOULDER, RIGHT_SHOULDER} \ DOMAIN pLandmarks # {})
    /\ ~IsNull(pMetric) =>
         2 * pMetric.num =
           (pLandmarks[LEFT_SHOULDER].y + pLandmarks[RIGHT_SHOULDER].y
              - 2 * pLandmarks[NOSE].y) * pMetric.den
    /\ pPc = "moved" => pMetric = pMetricBefore
    /\ IsNull(baseline) /\ calibrationCount = 0 /\ calibrationSum = Zero
    /\ ~logicIsCalibrated /\ threshold = DefaultSensitivity

\* A half-integer metric (shoulders at 10 and 13, nose at 20: -8.5) is
\* returned again after a shoulder's visibility was changed.
C11_Witness ==
  /\ pPc = "moved"
  /\ pMetric = [num |-> -17, den |-> 2]
  /\ pLandmarks[LEFT_SHOULDER].visibility # pLandmarks[RIGHT_SHOULDER].visibility
  /\ LEFT_EAR \notin DOMAIN pLandmarks

\* C12. An alert fires only in an evaluation (calibrated session, no
\* calibration in progress) of a person-present frame whose deviation is
\* above the threshold and that yields status "bad" with the bad-posture
\* timer older than 2000 ms; the frames of the current streak of bad
\* evaluations began more than 2000 ms ago, so after a correction no alert
\* fires before a new streak is confirmed. lastAlertTime is the time of the
\* last alert and of nothing else.
C12_AlertsOnlyOnConfirmedBad ==
  /\ ev.fired =>
       /\ ev.op = "evaluate" /\ isCalibrated /\ ~calibrating
       /\ ev.present /\ ev.isBad
       /\ ~IsNull(baseline) /\ ~IsNull(ev.metric)
       /\ baseline.num * ev.metric.den - ev.metric.num * baseline.den
            > threshold * baseline.den * ev.metric.den
       /\ postureStatus = "bad"
       /\ badPostureStartTime # 0
       /\ now - badPostureStartTime > BadPostureDelayMs
       /\ runStart # 0 /\ now - runStart > BadPostureDelayMs
       /\ alerts # <<>> /\ alerts[Len(alerts)] = now
  /\ lastAlertTime = IF alerts = <<>> THEN 0 ELSE alerts[Len(alerts)]

\* The first alert of a session whose earlier streak of bad frames was
\* interrupted before it was confirmed.
C12_Witness ==
  /\ ev.fired /\ Len(alerts) = 1 /\ brokenStreak
  /\ ev.prevStatus = "good" /\ postureStatus = "bad"

\* The evaluation of a person-present frame in a session that holds a
\* baseline.
EvaluatedWithBaseline ==
  ev.op = "evaluate" /\ ev.present /\ ~IsNull(baseline) /\ ~IsNull(ev.metric)

\* baseline - metric > t, for the baseline held and the evaluated frame.
DeviationAbove(t) ==
  baseline.num * ev.metric.den - ev.metric.num * baseline.den
    > t * baseline.den * ev.metric.den

C13_Evaluation ==
  EvaluatedWithBaseline =>
    /\ threshold = sensitivity
    /\ deviation.num * baseline.den * ev.metric.den =
         (baseline.num * ev.metric.den - ev.metric.num * baseline.den)
           * deviation.den
    /\ ev.isBad <=> DeviationAbove(sensitivity)
    /\ ~DeviationAbove(sensitivity) =>
         postureStatus = "good" /\ badPostureStartTime = 0

C13_SliderStep ==
  sensitivity' # sensitivity =>
    UNCHANGED <<postureStatus, deviation, badPostureStartTime, lastAlertTime,
                threshold, baseline, isCalibrated, calibrating>>

\* C13. In a session that holds a baseline, the evaluation of a
\* person-present frame calls it bad exactly when baseline - metric is above
\* the slider value in force at that evaluation (which it passes to
\* setThreshold); a deviation at or below it yields status "good" and clears
\* the bad-posture timer; a slider move changes neither the status nor the
\* timer nor the deviation nor PostureLogic's threshold.
C13_CurrentThresholdStrict == [](C13_Evaluation) /\ [][C13_SliderStep]_vars

\* A deviation equal to a threshold that was moved away from its default
\* (baseline 0.30, metric 0.24, threshold 0.06) is good.
C13_Witness ==
  /\ EvaluatedWithBaseline /\ ~ev.isBad
  /\ sensitivity # DefaultSensitivity
  /\ deviation.num = sensitivity * deviation.den
  /\ ev.prevStatus = "bad" /\ postureStatus = "good"

\* The time of the last alert before the current step (0 when there was
\* none), read from the list of the alerts spoken.
LastAlertBefore ==
  LET n == IF ev.fired THEN Len(alerts) - 1 ELSE Len(alerts)
  IN  IF n >= 1 THEN alerts[n] ELSE 0

\* C14. An alert fires during an evaluation only if the evaluation changes
\* the status from a non-bad value to "bad" and more than 5000 ms have
\* passed since the last alert; an evaluation that finds the status "bad"
\* and leaves it "bad" never fires one.
C14_AlertOnlyOnTransition ==
  ev.fired =>
    /\ ev.prevStatus # "bad" /\ postureStatus = "bad"
    /\ now - LastAlertBefore > AlertCooldownMs

\* C14, amended. An alert fires during an evaluation only if the evaluation
\* yields status "bad" and more than 5000 ms have passed since the last
\* alert, whether or not the status was "bad" before; an evaluation that
\* finds the status "bad" and leaves it "bad" fires an alert whenever more
\* than 5000 ms have passed since the last one.
C14_AlertOnEveryConfirmedBad ==
  /\ ev.fired =>
       /\ ev.op = "evaluate" /\ postureStatus = "bad"
       /\ now - LastAlertBefore > AlertCooldownMs
  /\ ( /\ ev.op = "evaluate" /\ ev.prevStatus = "bad" /\ postureStatus = "bad"
       /\ now - LastAlertBefore > AlertCooldownMs ) => ev.fired

\* Sustained bad posture is alerted a second time while the status stays
\* "bad".
C14_Witness ==
  /\ ev.fired /\ ev.prevStatus = "bad" /\ postureStatus = "bad"
  /\ Len(alerts) = 2
  /\ ~brokenStreak

\* C15. startCalibration clears the accumulator and enters Calibrating, and
\* the baseline held immediately before it is still held at every point
\* until finalizeCalibration runs.
C15_StartKeepsBaseline ==
  /\ ev.op = "start" =>
       calibrating /\ calibrationCount = 0 /\ calibrationSum = Zero
  /\ calibrating => baseline = baselineAtStart

\* C15, amended. startCalibration clears the accumulator and enters
\* Calibrating, and discards an existing baseline at once: from
\* startCalibration until finalizeCalibration runs, the baseline is null and
\* PostureLogic is not calibrated.
C15_StartDiscardsBaseline ==
  /\ ev.op = "start" =>
       calibrating /\ calibrationCount = 0 /\ calibrationSum = Zero
  /\ calibrating => IsNull(baseline) /\ ~logicIsCalibrated

\* A recalibration was just started in a session that held a baseline.
C15_Witness ==
  /\ ev.op = "start" /\ calibrating /\ isCalibrated
  /\ ~IsNull(baselineAtStart) /\ IsNull(baseline)

\* C16. In every reachable state the baseline is defined exactly when the
\* session is Calibrated (isCalibrated is true and no calibration is in
\* progress), and outside a calibration window the orchestrator's flag
\* agrees with PostureLogic's isCalibrated and baseline.
C16_BaselineIffCalibrated ==
  /\ ~IsNull(baseline) <=> (isCalibrated /\ ~calibrating)
  /\ ~calibrating => (isCalibrated <=> logicIsCalibrated)
  /\ logicIsCalibrated <=> ~IsNull(baseline)

\* C17. In a calibrated session every evaluation of a person-present frame
\* yields status "good" or "bad"; a bad frame that arrives while the
\* bad-posture timer is not running starts the timer at the current time and
\* yields "good", also when the previous status was "waiting".
C17_PresentNeverWaiting ==
  (ev.op = "evaluate" /\ ev.present) =>
    /\ postureStatus \in {"good", "bad"}
    /\ (ev.isBad /\ badPostureStartTime = now) => postureStatus = "good"

\* C18. In a calibrated session the evaluation of a frame from which no
\* metric can be computed (the nose or a shoulder is missing) finds no
\* person: it yields status "waiting" with deviation 0 and the bad-posture
\* timer cleared, never "good" or "bad"; every frame that reaches
\* checkPosture has a metric.
C18_UnreadableNeverClassified ==
  /\ (ev.op = "evaluate" /\ IsNull(ev.metric)) =>
       /\ ~ev.present /\ ~ev.isBad /\ ~ev.fired
       /\ postureStatus = "waiting"
       /\ deviation = Zero
       /\ badPostureStartTime = 0
  /\ (ev.op = "evaluate" /\ ev.present) => ~IsNull(ev.metric)

\* A frame without a metric is evaluated when the status is "good" and a
\* streak of bad frames was interrupted before any alert.
C18_Witness ==
  /\ ev.op = "evaluate" /\ IsNull(ev.metric)
  /\ ev.prevStatus = "good" /\ postureStatus = "waiting"
  /\ brokenStreak /\ alerts = <<>> /\ ~IsNull(baseline)

\* Between startCalibration and its timer callback exactly one callback is
\* pending, due within 3000 ms; the callback leaves no calibration in
\* progress and schedules nothing.
C19_Window ==
  /\ calibrating <=> timers # {}
  /\ Cardinality(timers) <= 1
  /\ \A d \in timers : now <= d /\ d <= now + CalibrationWindowMs
  /\ ev.op = "start" => timers = {now + CalibrationWindowMs}
  /\ ev.op = "finalize" => ~calibrating /\ timers = {}

\* C19. Every startCalibration schedules exactly one finalize callback
\* 3000 ms later; the callback ends the window on the success and on the
\* failure path and starts no new one; a session that is calibrating is
\* eventually not calibrating.
C19_EveryWindowEnds == [](C19_Window) /\ (calibrating ~> ~calibrating)

\* A recalibration window has just ended in failure.
C19_Witness ==
  /\ ev.op = "finalize" /\ ~ev.success /\ ~calibrating /\ timers = {}
  /\ isCalibrated /\ winCount = 0

\* C20. A bad frame evaluated more than 2000 ms after its streak of bad
\* evaluations began and more than 5000 ms after the last alert (or before
\* any alert) fires an alert, so a session that keeps receiving bad frames
\* while time advances is alerted, and alerted again on the first
\* bad-status evaluation more than 5000 ms after each alert; an evaluation
\* within the cooldown fires nothing, and no step other than such an
\* evaluation fires an alert.
C20_SkippedNotLost ==
  /\ ( /\ EvaluatedBad /\ runStart # 0
       /\ now - runStart > BadPostureDelayMs
       /\ now - LastAlertBefore > AlertCooldownMs ) =>
       ev.fired /\ postureStatus = "bad" /\ lastAlertTime = now
  /\ (EvaluatedBad /\ postureStatus = "bad") =>
       (ev.fired <=> now - LastAlertBefore > AlertCooldownMs)
  /\ ~(EvaluatedBad /\ postureStatus = "bad") =>
       /\ ~ev.fired
       /\ lastAlertTime = LastAlertBefore

\* After an alert and a correction, a new streak of bad frames was
\* confirmed within the cooldown without an alert (the status was already
\* "bad"); the first bad frame evaluated after the cooldown fires the second
\* alert.
C20_Witness ==
  /\ ev.fired /\ Len(alerts) = 2
  /\ badPostureStartTime > alerts[1]
  /\ ev.prevStatus = "bad" /\ postureStatus = "bad"

\* The bad-posture timer runs only while the streak of evaluations of
\* person-present frames with deviation above the threshold, in which it was
\* started, has not been interrupted.
TimerRunsOnlyInBadStreak ==
  /\ badPostureStartTime # 0 =>
       runStart # 0 /\ runStart <= badPostureStartTime
  /\ (ev.op = "evaluate" /\ badPostureStartTime # 0) => ev.present /\ ev.isBad

\* C21. In every reachable state the bad-posture timer is running only if
\* the most recent evaluation, and every evaluation since the timer was
\* started, was of a person-present frame with deviation above the
\* threshold; after an evaluation that yields "waiting" or classifies the
\* frame as not bad, the timer is not running.
C21_TimerInvariant ==
  /\ TimerRunsOnlyInBadStreak
  /\ ( /\ ev.op = "evaluate"
       /\ (postureStatus = "waiting" \/ ~(ev.present /\ ev.isBad)) ) =>
       badPostureStartTime = 0

\* A window is started only when none is in progress, and the timer callback
\* finalizes the accumulator filled by the frames of its own window, at its
\* own deadline.
C22_Step ==
  /\ ev'.op = "start" =>
       /\ ~calibrating /\ timers = {}
       /\ timers' = {now + CalibrationWindowMs}
  /\ ev'.op = "finalize" =>
       /\ calibrating /\ timers = {now} /\ timers' = {}
       /\ calibrationCount = winCount /\ calibrationSum = winSum
       /\ ev'.success <=> winCount > 0

\* C22. startCalibration is never invoked while a calibration is in
\* progress, so at most one finalize timer is pending at any time, and every
\* finalizeCalibration runs against the accumulator filled since its own
\* startCalibration.
C22_WindowsNeverOverlap ==
  [](Cardinality(timers) <= 1 /\ (timers # {} => calibrating))
    /\ [][C22_Step]_vars

\* A second window has succeeded on a single frame of its own: the new
\* baseline is that frame's metric, not the previous baseline.
C22_Witness ==
  /\ ev.op = "finalize" /\ ev.success /\ winCount = 1
  /\ ~IsNull(ev.prevBaseline) /\ baseline # ev.prevBaseline
  /\ baseline = winSum

\* C23. After finalizeCalibration succeeds the bad-posture timer is not
\* running, so that with the new baseline the status cannot become "bad",
\* and no alert can fire, until more than 2000 ms after the first bad frame
\* evaluated after the calibration finished, even if a bad streak was
\* running when the recalibration was requested.
C23_CleanDebounceAfterCalibration ==
  /\ []((ev.op = "finalize" /\ ev.success) => badPostureStartTime = 0)
  /\ [][(ev.op = "finalize" /\ ev.success) =>
          (postureStatus' # "bad" /\ ~ev'.fired)]_vars

\* The metrics of the frames the pose source delivers.
FrameMetrics == {calculateMetric(f) : f \in Frames} \ {Null}

\* A frame received while calibrating changes nothing but the accumulator,
\* and the accumulator only when a person is present.
C24_Step ==
  ev'.op = "calibrate" =>
    /\ calibrating /\ calibrating'
    /\ IsNull(baseline) /\ ~logicIsCalibrated
    /\ UNCHANGED <<postureStatus, deviation, badPostureStartTime,
                   lastAlertTime, alerts, isCalibrated, sensitivity,
                   baseline, logicIsCalibrated, threshold, timers, now>>
    /\ ~ev'.fired /\ ~ev'.isBad
    /\ ~ev'.present => UNCHANGED <<calibrationSum, calibrationCount>>
    /\ ev'.present =>
         /\ calibrationCount' = calibrationCount + 1
         /\ \E m \in FrameMetrics : calibrationSum' = AddQ(calibrationSum, m)

\* C24. Between startCalibration and the matching finalize a frame is never
\* evaluated: it only updates the calibration accumulator, and only when a
\* person is present; status, deviation, bad-posture timer and last-alert
\* timestamp stay as they are, no alert fires, and no baseline is held that
\* the frame could be compared with.
C24_CalibratingFramesNotEvaluated ==
  [](calibrating => ev.op \in {"start", "calibrate", "other"})
    /\ [][C24_Step]_vars

\* During a recalibration requested in a confirmed bad streak, a
\* person-present frame was accumulated and the status, the deviation and
\* the timer are those of the streak.
C24_Witness ==
  /\ ev.op = "calibrate" /\ ev.present /\ calibrating
  /\ calibrationCount = 1
  /\ postureStatus = "bad" /\ badPostureStartTime # 0 /\ deviation # Zero
  /\ alerts # <<>>
====
